---- MODULE Spec2Model ----
(***************************************************************************)
(* Model of the HTTP client of apps/sh (client.ts: createClient, request)  *)
(* and of its parameter mapper (params.ts: buildClientParams), and of the   *)
(* desktop notification service of apps/whispering (desktop.ts).           *)
(*                                                                         *)
(* JavaScript values are records [t |-> <type tag>, v |-> <payload>].      *)
(* Strings and object keys are sequences of one-character strings, so that *)
(* startsWith / slice / Object.entries act on them as they do in the code. *)
(* An object is the sequence of its <<key, value>> entries in insertion    *)
(* order, without duplicate keys.                                          *)
(***************************************************************************)
EXTENDS Integers, Sequences, FiniteSets, TLC

VARIABLES
    _config,        \* client.ts:27  let _config
    interceptors,   \* client.ts:45  the three registries; [chain |-> _fns]
    call,           \* the activation record of the request() call in flight
    args,           \* params.ts:123 the arguments of buildClientParams
    fields,         \* params.ts:124 its FieldsConfig
    result,         \* what buildClientParams returned
    activeOnDesktop,    \* the numeric ids the notification plugin shows
    notifyCalls         \* the notify() and clear() calls of the service

clientVars == <<_config, interceptors, call>>
paramsVars == <<args, fields, result>>
notifyVars == <<activeOnDesktop, notifyCalls>>
vars == <<_config, interceptors, call, args, fields, result,
          activeOnDesktop, notifyCalls>>

----------------------------------------------------------------------------
(* Bounds *)

MaxFns == 2          \* how many slots the three registries hold together
MaxMutations == 1    \* how many times the client is changed during one call
MaxArgs == 2         \* how many arguments buildClientParams is given
MaxFields == 2       \* how many entries its FieldsConfig has
MaxCalls == 2        \* how many calls the notification service is given

----------------------------------------------------------------------------
(* JavaScript values *)

Undefined == [t |-> "undefined", v |-> <<>>]
Null == [t |-> "null", v |-> <<>>]
JsBool(b) == [t |-> "boolean", v |-> b]
JsNum(n) == [t |-> "number", v |-> n]
JsStr(chars) == [t |-> "string", v |-> chars]
JsObj(entries) == [t |-> "object", v |-> entries]
\* an array is its entries too: index keys first, as Object.entries lists them
JsArr(entries) == [t |-> "array", v |-> entries]
EmptyObj == JsObj(<<>>)

\* !value
Falsy(x) ==
    \/ x.t \in {"undefined", "null"}
    \/ x.t = "boolean" /\ x.v = FALSE
    \/ x.t = "number" /\ x.v = 0
    \/ x.t = "string" /\ x.v = <<>>

\* Object.keys(obj)
ObjectKeys(obj) == [i \in 1..Len(obj.v) |-> obj.v[i][1]]

HasKey(obj, key) == \E i \in 1..Len(obj.v) : obj.v[i][1] = key

\* obj[key]
Get(obj, key) ==
    IF HasKey(obj, key)
    THEN LET i == CHOOSE j \in 1..Len(obj.v) : obj.v[j][1] = key IN obj.v[i][2]
    ELSE Undefined

\* obj[key] = value : an existing key keeps its position, a new key is appended
Put(obj, key, value) ==
    IF HasKey(obj, key)
    THEN [obj EXCEPT !.v = [i \in 1..Len(obj.v) |->
                  IF obj.v[i][1] = key THEN <<key, value>> ELSE obj.v[i]]]
    ELSE [obj EXCEPT !.v = Append(obj.v, <<key, value>>)]

\* delete obj[key]
Delete(obj, key) ==
    [obj EXCEPT !.v = SelectSeq(obj.v, LAMBDA e : e[1] # key)]

----------------------------------------------------------------------------
(* The client: configuration *)

Chains == {"request", "response", "error"}

ParseAsValues == {"auto", "json", "text", "stream", "blob"}

NoPatch == [k \in {} |-> TRUE]

\* utils.createConfig(): the defaults of a client
createConfig ==
    [throwOnError |-> FALSE, responseStyle |-> "fields", parseAs |-> "auto",
     security |-> FALSE, requestValidator |-> FALSE,
     responseValidator |-> FALSE, responseTransformer |-> FALSE]

\* utils.mergeConfigs(a, b): a new object, the fields of b replace those of a
mergeConfigs(a, b) ==
    [k \in DOMAIN a \cup DOMAIN b |-> IF k \in DOMAIN b THEN b[k] ELSE a[k]]

\* the Config objects handed to createClient and setConfig
ConfigPatches ==
    {NoPatch}
    \cup {[throwOnError |-> b] : b \in BOOLEAN}
    \cup {[responseStyle |-> s] : s \in {"fields", "data"}}

\* the options handed to request()
OptionPatches ==
    {NoPatch}
    \cup {[parseAs |-> p, responseValidator |-> TRUE, responseTransformer |-> TRUE] :
            p \in ParseAsValues}
    \cup {[security |-> TRUE, requestValidator |-> TRUE],
          [requestValidator |-> TRUE]}

----------------------------------------------------------------------------
(* The client: requests, responses, bodies *)

K_data == <<"d", "a", "t", "a">>
K_error == <<"e", "r", "r", "o", "r">>
K_request == <<"r", "e", "q", "u", "e", "s", "t">>
K_response == <<"r", "e", "s", "p", "o", "n", "s", "e">>
K_a == <<"a">>

\* A Request is the list of the request interceptors applied to the Request
\* that request() constructed: <<>> is new Request(url, requestInit), and
\* Append(r, f) is what function f returned for r.
JsRequest(applied) == [t |-> "Request", v |-> applied]

\* the responses the transport and the response interceptors hand back
Responses ==
    {[status |-> 200, contentLength |-> "none", contentType |-> "application/json"],
     [status |-> 200, contentLength |-> "none", contentType |-> "none"],
     [status |-> 200, contentLength |-> "0", contentType |-> "text/plain"],
     [status |-> 204, contentLength |-> "none", contentType |-> "none"],
     [status |-> 404, contentLength |-> "none", contentType |-> "application/json"]}

JsResponse(r) == [t |-> "Response", v |-> r]

\* response.ok
ResponseOk(r) == r.status >= 200 /\ r.status <= 299

\* response.body
ResponseBody(r) == [t |-> "ReadableStream", v |-> r.status]

\* the texts a response body is read as
T_object == <<"{", "\"", "a", "\"", ":", "1", "}">>
T_null == <<"n", "u", "l", "l">>
T_false == <<"f", "a", "l", "s", "e">>
T_zero == <<"0">>
T_emptyString == <<"\"", "\"">>
T_oops == <<"o", "o", "p", "s">>

\* the texts of the body of a response that is not ok
ErrorTexts == {T_object, T_null, T_false, T_zero, T_emptyString, T_oops}

\* the texts of the body of a response that is ok
DataTexts == {T_object, T_oops}

\* JSON.parse(text): [ok |-> FALSE] stands for the SyntaxError it throws
JSONParse(text) ==
    CASE text = T_object -> [ok |-> TRUE, value |-> JsObj(<< <<K_a, JsNum(1)>> >>)]
      [] text = T_null -> [ok |-> TRUE, value |-> Null]
      [] text = T_false -> [ok |-> TRUE, value |-> JsBool(FALSE)]
      [] text = T_zero -> [ok |-> TRUE, value |-> JsNum(0)]
      [] text = T_emptyString -> [ok |-> TRUE, value |-> JsStr(<<>>)]
      [] OTHER -> [ok |-> FALSE, value |-> Undefined]

JsError(what, n) == [t |-> "Error", v |-> <<what, n>>]

\* what the user function fn returned for the argument arg
ResultOf(fn, arg) == [t |-> "Returned", v |-> <<fn, arg>>]

\* utils.getParseAs(contentType)
getParseAs(contentType) ==
    CASE contentType = "application/json" -> "json"
      [] contentType = "text/plain" -> "text"
      [] OTHER -> "undefined"

----------------------------------------------------------------------------
(* The client: one call of request() *)

Pending == [kind |-> "pending", value |-> Undefined]

NoFns == [c \in Chains |-> <<>>]

\* no call in flight
NoCall ==
    [pc |-> "idle", opts |-> createConfig,
     request |-> Undefined, response |-> Undefined,
     chain |-> "none", fns |-> <<>>, live |-> FALSE, idx |-> 0, fn |-> 0,
     parseAs |-> "none", data |-> Undefined,
     textError |-> Undefined, error |-> Undefined, finalError |-> Undefined,
     outcome |-> Pending, rejected |-> Undefined,
     trace |-> <<>>, startConfig |-> createConfig, startFns |-> NoFns,
     mutations |-> 0]

\* a call of a user function or of the platform, as the call's trace records it
Event(op, fn, arg) == [op |-> op, fn |-> fn, arg |-> arg]

Await(c, pc, op, fn, arg) ==
    [c EXCEPT !.pc = pc, !.fn = fn, !.trace = Append(@, Event(op, fn, arg))]

\* the call is over: its loop, if any, is abandoned
Over(c, outcome) ==
    [c EXCEPT !.pc = "done", !.outcome = outcome,
              !.chain = "none", !.fns = <<>>, !.live = FALSE, !.idx = 0, !.fn = 0,
              !.startFns = NoFns, !.mutations = 0]

Throw(c, value) == Over(c, [kind |-> "threw", value |-> value])

Return(c, value) == Over(c, [kind |-> "returned", value |-> value])

\* { <key>: value, ...result }
Envelope(c, key, value) ==
    JsObj(<< <<key, value>>, <<K_request, c.request>>, <<K_response, c.response>> >>)

\* the array a for-of loop of the call walks: the registry's array, or the
\* array the registry had when use() or clear() replaced it
LoopArray(c) == IF c.live THEN interceptors[c.chain] ELSE c.fns

\* the first index >= from of a slot holding a function; 0 when there is none
NextIdx(fns, from) ==
    IF \E j \in from..Len(fns) : fns[j] # 0
    THEN CHOOSE j \in from..Len(fns) :
             fns[j] # 0 /\ \A k \in from..(j - 1) : fns[k] = 0
    ELSE 0

\* LoopArg, were every request interceptor handed the constructed Request
LoopArg_Fresh(c) ==
    CASE c.chain = "request" -> JsRequest(<<>>)
      [] c.chain = "response" -> Undefined
      [] c.chain = "error" -> c.error

\* the first argument the loop over chain c.chain hands to each function, as
\* the trace records it (the trace does not keep the responses)
LoopArg(c) ==
    CASE c.chain = "request" -> c.request
      [] c.chain = "response" -> Undefined
      [] c.chain = "error" -> c.error

\* for (const fn of interceptors.<chain>._fns) if (fn) ... await fn(...) :
\* runs to the next call of a function, or to the code after the loop
Loop(c, After(_)) ==
    LET j == NextIdx(LoopArray(c), c.idx) IN
    IF j = 0
    THEN After([c EXCEPT !.chain = "none", !.fns = <<>>, !.live = FALSE,
                         !.idx = 0, !.fn = 0])
    ELSE Await([c EXCEPT !.idx = j + 1], "fn", c.chain, j, LoopArg(c))

StartLoop(c, chain, After(_)) ==
    Loop([c EXCEPT !.chain = chain, !.fns = <<>>, !.live = TRUE, !.idx = 1], After)

\* Finish, were the bare style to hand back the error itself
Finish_BareError(c) ==
    LET finalError == IF Falsy(c.finalError) THEN EmptyObj ELSE c.finalError
        c1 == [c EXCEPT !.finalError = finalError]
    IN  IF c.opts.throwOnError
        THEN Throw(c1, finalError)
        ELSE Return(c1, IF c.opts.responseStyle = "data"
                        THEN finalError
                        ELSE Envelope(c1, K_error, finalError))

\* Finish, were a falsy final error not replaced by {}
Finish_NoDefault(c) ==
    IF c.opts.throwOnError
    THEN Throw(c, c.finalError)
    ELSE Return(c, IF c.opts.responseStyle = "data"
                   THEN Undefined
                   ELSE Envelope(c, K_error, c.finalError))

\* Finish, were it to read the client's configuration instead of opts
Finish_LiveConfig(c) ==
    LET finalError == IF Falsy(c.finalError) THEN EmptyObj ELSE c.finalError
        c1 == [c EXCEPT !.finalError = finalError]
    IN  IF _config.throwOnError
        THEN Throw(c1, finalError)
        ELSE Return(c1, IF _config.responseStyle = "data"
                        THEN Undefined
                        ELSE Envelope(c1, K_error, finalError))

\* finalError = finalError || {} ; throw, or return the error channel
Finish(c) ==
    LET finalError == IF Falsy(c.finalError) THEN EmptyObj ELSE c.finalError
        c1 == [c EXCEPT !.finalError = finalError]
    IN  IF c.opts.throwOnError
        THEN Throw(c1, finalError)
        ELSE Return(c1, IF c.opts.responseStyle = "data"
                        THEN Undefined
                        ELSE Envelope(c1, K_error, finalError))

\* const error = jsonError ?? textError ; let finalError = error ; error loop
ErrorBranch(c, textError) ==
    LET parsed == JSONParse(textError)
        jsonError == IF parsed.ok THEN parsed.value ELSE Undefined
        error == IF jsonError.t \in {"undefined", "null"}
                 THEN JsStr(textError)
                 ELSE jsonError
    IN  StartLoop([c EXCEPT !.textError = JsStr(textError), !.error = error,
                            !.finalError = error],
                  "error", Finish)

ReturnData(c) ==
    Return(c, IF c.opts.responseStyle = "data"
              THEN c.data
              ELSE Envelope(c, K_data, c.data))

AfterResponseValidator(c) ==
    IF c.opts.responseTransformer
    THEN Await(c, "responseTransformer", "responseTransformer", 0, c.data)
    ELSE ReturnData(c)

AfterBody(c) ==
    IF c.parseAs = "json"
    THEN IF c.opts.responseValidator
         THEN Await(c, "responseValidator", "responseValidator", 0, c.data)
         ELSE AfterResponseValidator(c)
    ELSE ReturnData(c)

\* Branch, were Content-Length not looked at
Branch_StatusOnly(c) ==
    LET r == c.response.v IN
    IF ResponseOk(r)
    THEN IF r.status = 204
         THEN Return(c, IF c.opts.responseStyle = "data"
                        THEN EmptyObj
                        ELSE Envelope(c, K_data, EmptyObj))
         ELSE LET inferred == IF c.opts.parseAs = "auto"
                              THEN getParseAs(r.contentType)
                              ELSE c.opts.parseAs
                  parseAs == IF inferred = "undefined" THEN "json" ELSE inferred
              IN  IF parseAs = "stream"
                  THEN Return([c EXCEPT !.parseAs = parseAs],
                              IF c.opts.responseStyle = "data"
                              THEN ResponseBody(r)
                              ELSE Envelope(c, K_data, ResponseBody(r)))
                  ELSE Await([c EXCEPT !.parseAs = parseAs], "body", parseAs, 0, Undefined)
    ELSE Await(c, "text", "text", 0, Undefined)

\* the code after the response interceptors, up to its first await or return
Branch(c) ==
    LET r == c.response.v IN
    IF ResponseOk(r)
    THEN IF r.status = 204 \/ r.contentLength = "0"
         THEN Return(c, IF c.opts.responseStyle = "data"
                        THEN EmptyObj
                        ELSE Envelope(c, K_data, EmptyObj))
         ELSE LET inferred == IF c.opts.parseAs = "auto"
                              THEN getParseAs(r.contentType)
                              ELSE c.opts.parseAs
                  parseAs == IF inferred = "undefined" THEN "json" ELSE inferred
              IN  IF parseAs = "stream"
                  THEN Return([c EXCEPT !.parseAs = parseAs],
                              IF c.opts.responseStyle = "data"
                              THEN ResponseBody(r)
                              ELSE Envelope(c, K_data, ResponseBody(r)))
                  ELSE Await([c EXCEPT !.parseAs = parseAs], "body", parseAs, 0, Undefined)
    ELSE Await(c, "text", "text", 0, Undefined)

InvokeFetch(c) == Await(c, "fetch", "fetch", 0, c.request)

\* body serialisation, buildUrl, new Request(url, requestInit), request loop
Construct(c) ==
    StartLoop([c EXCEPT !.request = JsRequest(<<>>)], "request", InvokeFetch)

AfterAuth(c) ==
    IF c.opts.requestValidator
    THEN Await(c, "requestValidator", "requestValidator", 0, Undefined)
    ELSE Construct(c)

\* request(options) up to its first await
Start(options) ==
    LET opts == mergeConfigs(_config, options)
        c == [NoCall EXCEPT !.opts = opts, !.startConfig = _config,
                            !.startFns = interceptors]
    IN  IF opts.security
        THEN Await(c, "setAuthParams", "setAuthParams", 0, Undefined)
        ELSE AfterAuth(c)

----------------------------------------------------------------------------
(* The client: actions.  One action per entry into request() and per      *)
(* settled await; each runs the code up to the next await or to the end.   *)

NoResult == [status |-> "none", params |-> Undefined, writes |-> {}, thrownBy |-> <<>>]

\* a call of the notification service that was not made yet
NoNotifyCall ==
    [op |-> "none", pc |-> "idle", idStringified |-> "", id |-> 0,
     matching |-> 0, outcome |-> [kind |-> "pending", value |-> ""],
     trace |-> <<>>]

\* createNotificationServiceDesktop(), nothing shown yet
NoNotifications ==
    /\ activeOnDesktop = {}
    /\ notifyCalls = [c \in 1..MaxCalls |-> NoNotifyCall]

\* createClient(config)
Init ==
    /\ \E config \in ConfigPatches : _config = mergeConfigs(createConfig, config)
    /\ interceptors = NoFns
    /\ call = NoCall
    /\ args = <<>>
    /\ fields = <<>>
    /\ result = NoResult
    /\ NoNotifications

\* a change of the client: counted when a call is in flight
Mutate(c, changed) ==
    IF c.pc = "idle" \/ ~changed THEN c ELSE [c EXCEPT !.mutations = @ + 1]

\* (a settled call is taken by its caller before the client is changed again)
MayMutate ==
    \/ call.pc = "idle"
    \/ call.pc # "done" /\ call.mutations < MaxMutations

\* setConfig(config)
SetConfig(config) ==
    /\ MayMutate
    /\ _config' = mergeConfigs(_config, config)
    /\ call' = Mutate(call, mergeConfigs(_config, config) # _config)
    /\ UNCHANGED <<interceptors, paramsVars, notifyVars>>

\* the loop of the call in flight walks the array of this chain's registry
Walking(chain) == call.chain = chain /\ call.live

\* the call keeps the array it walks when the registry takes a new one
Detach(chain) ==
    IF Walking(chain)
    THEN [call EXCEPT !.fns = interceptors[chain], !.live = FALSE]
    ELSE call

\* interceptors.<chain>.use(fn)
Use(chain) ==
    /\ MayMutate
    /\ Len(interceptors.request) + Len(interceptors.response)
         + Len(interceptors.error) < MaxFns
    /\ interceptors' = [interceptors EXCEPT ![chain] = Append(@, 1)]
    /\ call' = Mutate(Detach(chain), TRUE)
    /\ UNCHANGED <<_config, paramsVars, notifyVars>>

\* interceptors.<chain>.eject(id)
Eject(chain, id) ==
    /\ MayMutate
    /\ id \in 1..Len(interceptors[chain])
    /\ interceptors[chain][id] # 0
    /\ interceptors' = [interceptors EXCEPT ![chain][id] = 0]
    /\ call' = Mutate(call, TRUE)
    /\ UNCHANGED <<_config, paramsVars, notifyVars>>

\* interceptors.<chain>.clear()
Clear(chain) ==
    /\ MayMutate
    /\ interceptors' = [interceptors EXCEPT ![chain] = <<>>]
    /\ call' = Mutate(Detach(chain), interceptors[chain] # <<>>)
    /\ UNCHANGED <<_config, paramsVars, notifyVars>>

\* Reject, were a rejection of the request validator not to stop the call
Reject_Ignored(c, value) ==
    IF c.pc = "requestValidator"
    THEN Construct([c EXCEPT !.rejected = value])
    ELSE Throw([c EXCEPT !.rejected = value], value)

\* an awaited call rejects: nothing in request() catches it
Reject(c, value) == Throw([c EXCEPT !.rejected = value], value)

\* the argument the function awaited was called with
LastArg(c) == c.trace[Len(c.trace)].arg

\* request(options)
Request(options) ==
    /\ call.pc = "idle"
    /\ call' = Start(options)
    /\ UNCHANGED <<_config, interceptors, paramsVars, notifyVars>>

\* await setAuthParams(...)
SetAuthParamsSettles ==
    /\ call.pc = "setAuthParams"
    /\ \/ call' = AfterAuth(call)
       \/ call' = Reject(call, JsError("setAuthParams", 0))
    /\ UNCHANGED <<_config, interceptors, paramsVars, notifyVars>>

\* await opts.requestValidator(opts)
RequestValidatorSettles ==
    /\ call.pc = "requestValidator"
    /\ \/ call' = Construct(call)
       \/ call' = Reject(call, JsError("requestValidator", 0))
    /\ UNCHANGED <<_config, interceptors, paramsVars, notifyVars>>

\* request = await fn(request, opts)
RequestInterceptorSettles ==
    /\ call.pc = "fn" /\ call.chain = "request"
    /\ \/ call' = Loop([call EXCEPT
                            !.request = JsRequest(Append(LastArg(call).v, call.fn))],
                       InvokeFetch)
       \/ call' = Reject(call, JsError("request", call.fn))
    /\ UNCHANGED <<_config, interceptors, paramsVars, notifyVars>>

\* let response = await _fetch(request)
FetchSettles ==
    /\ call.pc = "fetch"
    /\ \/ \E r \in Responses :
            call' = StartLoop([call EXCEPT !.response = JsResponse(r)],
                              "response", Branch)
       \/ call' = Reject(call, JsError("fetch", 0))
    /\ UNCHANGED <<_config, interceptors, paramsVars, notifyVars>>

\* response = await fn(response, request, opts)
ResponseInterceptorSettles ==
    /\ call.pc = "fn" /\ call.chain = "response"
    /\ \/ \E r \in Responses :
            call' = Loop([call EXCEPT !.response = JsResponse(r)], Branch)
       \/ call' = Reject(call, JsError("response", call.fn))
    /\ UNCHANGED <<_config, interceptors, paramsVars, notifyVars>>

\* response[parseAs]() for the text the body holds
Decode(parseAs, text) ==
    CASE parseAs = "json" -> JSONParse(text)
      [] parseAs = "text" -> [ok |-> TRUE, value |-> JsStr(text)]
      [] OTHER -> [ok |-> TRUE, value |-> [t |-> parseAs, v |-> text]]

\* data = await response[parseAs]()
BodySettles ==
    /\ call.pc = "body"
    /\ \E text \in DataTexts :
         LET decoded == Decode(call.parseAs, text) IN
         call' = IF decoded.ok
                 THEN AfterBody([call EXCEPT !.data = decoded.value])
                 ELSE Reject(call, JsError(call.parseAs, 0))
    /\ UNCHANGED <<_config, interceptors, paramsVars, notifyVars>>

\* await opts.responseValidator(data)
ResponseValidatorSettles ==
    /\ call.pc = "responseValidator"
    /\ \/ call' = AfterResponseValidator(call)
       \/ call' = Reject(call, JsError("responseValidator", 0))
    /\ UNCHANGED <<_config, interceptors, paramsVars, notifyVars>>

\* data = await opts.responseTransformer(data)
ResponseTransformerSettles ==
    /\ call.pc = "responseTransformer"
    /\ \/ \E d \in {ResultOf(0, call.data), Undefined} :
            call' = ReturnData([call EXCEPT !.data = d])
       \/ call' = Reject(call, JsError("responseTransformer", 0))
    /\ UNCHANGED <<_config, interceptors, paramsVars, notifyVars>>

\* const textError = await response.text()
TextSettles ==
    /\ call.pc = "text"
    /\ \/ \E text \in ErrorTexts : call' = ErrorBranch(call, text)
       \/ call' = Reject(call, JsError("text", 0))
    /\ UNCHANGED <<_config, interceptors, paramsVars, notifyVars>>

\* finalError = await fn(error, response, request, opts)
ErrorInterceptorSettles ==
    /\ call.pc = "fn" /\ call.chain = "error"
    /\ \/ \E e \in {ResultOf(call.fn, LastArg(call)), Undefined} :
            call' = Loop([call EXCEPT !.finalError = e], Finish)
       \/ call' = Reject(call, JsError("error", call.fn))
    /\ UNCHANGED <<_config, interceptors, paramsVars, notifyVars>>

\* the caller takes the settled promise; the client is free for the next call
Settle ==
    /\ call.pc = "done"
    /\ call' = NoCall
    /\ UNCHANGED <<_config, interceptors, paramsVars, notifyVars>>

Next ==
    \/ \E config \in ConfigPatches : SetConfig(config)
    \/ \E chain \in Chains : Use(chain)
    \/ \E chain \in Chains : \E id \in 1..MaxFns : Eject(chain, id)
    \/ \E chain \in Chains : Clear(chain)
    \/ \E options \in OptionPatches : Request(options)
    \/ SetAuthParamsSettles
    \/ RequestValidatorSettles
    \/ RequestInterceptorSettles
    \/ FetchSettles
    \/ ResponseInterceptorSettles
    \/ BodySettles
    \/ ResponseValidatorSettles
    \/ ResponseTransformerSettles
    \/ TextSettles
    \/ ErrorInterceptorSettles
    \/ Settle

Spec == Init /\ [][Next]_vars

----------------------------------------------------------------------------
(* The parameter mapper: params.ts *)

K_body == <<"b", "o", "d", "y">>
K_headers == <<"h", "e", "a", "d", "e", "r", "s">>
K_path == <<"p", "a", "t", "h">>
K_query == <<"q", "u", "e", "r", "y">>
K_id == <<"i", "d">>
K_x == <<"x">>
K_query_x == <<"$", "q", "u", "e", "r", "y", "_", "x">>
S_hello == <<"h", "e", "l", "l", "o">>
S_1 == <<"1">>

Slots == <<K_body, K_headers, K_path, K_query>>

\* extraPrefixes = Object.entries(extraPrefixesMap)
extraPrefixes ==
    << <<(<<"$", "b", "o", "d", "y", "_">>), K_body>>,
       <<(<<"$", "h", "e", "a", "d", "e", "r", "s", "_">>), K_headers>>,
       <<(<<"$", "p", "a", "t", "h", "_">>), K_path>>,
       <<(<<"$", "q", "u", "e", "r", "y", "_">>), K_query>> >>

\* key.startsWith(prefix)
startsWith(key, prefix) ==
    Len(key) >= Len(prefix) /\ SubSeq(key, 1, Len(prefix)) = prefix

\* key.slice(n)
slice(key, n) == SubSeq(key, n + 1, Len(key))

\* the property name of the array index i
IndexKey(i) ==
    CASE i = 0 -> <<"0">> [] i = 1 -> <<"1">> [] i = 2 -> <<"2">>
      [] i = 3 -> <<"3">> [] i = 4 -> <<"4">> [] i = 5 -> <<"5">>
      [] i = 6 -> <<"6">> [] i = 7 -> <<"7">> [] i = 8 -> <<"8">>
      [] OTHER -> <<"9">>

\* Object.entries(value)
ObjectEntries(value) ==
    CASE value.t \in {"object", "array"} -> value.v
      [] value.t = "string" ->
            [i \in 1..Len(value.v) |-> <<IndexKey(i - 1), JsStr(<<value.v[i]>>)>>]
      [] OTHER -> <<>>

\* A Field is [in, key, map] and a Fields group [args, allowExtra]; a record
\* of the model has all five, with <<>> for what the object does not have
\* (a key or map that is absent is falsy as '' is; allowExtra is the list of
\* its entries).  'in' in config holds of the records whose in is not <<>>.
Field(in, key, map) ==
    [in |-> in, key |-> key, map |-> map, args |-> <<>>, allowExtra |-> <<>>]

Fields(fieldArgs, allowExtra) ==
    [in |-> <<>>, key |-> <<>>, map |-> <<>>, args |-> fieldArgs,
     allowExtra |-> allowExtra]

NoMap == [k \in {} |-> TRUE]

\* map.set(key, value)
MapSet(map, key, value) ==
    [k \in DOMAIN map \cup {key} |-> IF k = key THEN value ELSE map[k]]

RECURSIVE buildKeyMap(_, _)
\* buildKeyMap(fields, map)
buildKeyMap(configs, map) ==
    IF configs = <<>>
    THEN map
    ELSE LET config == Head(configs)
             map1 == IF config.in # <<>>
                     THEN IF config.key # <<>>
                          THEN MapSet(map, config.key,
                                      [in |-> config.in, map |-> config.map])
                          ELSE map
                     ELSE IF config.args # <<>>
                          THEN buildKeyMap(config.args, map)
                          ELSE map
         IN  buildKeyMap(Tail(configs), map1)

\* params as buildClientParams creates it
NewParams ==
    JsObj(<< <<K_body, EmptyObj>>, <<K_headers, EmptyObj>>,
             <<K_path, EmptyObj>>, <<K_query, EmptyObj>> >>)

\* the state of a run of buildClientParams: params, whether a TypeError was
\* thrown, and which key of which argument was written under which name
NewRun == [params |-> NewParams, thrown |-> FALSE, writes |-> {}, thrownBy |-> <<>>]

\* (params[slot] as Record<string, unknown>)[name] = value : a TypeError in
\* the strict code of a module when params[slot] is a primitive, null or
\* undefined
SetIn(run, slot, name, value, index, key) ==
    LET target == Get(run.params, slot) IN
    IF run.thrown
    THEN run
    ELSE IF target.t \in {"object", "array"}
    THEN [run EXCEPT !.params = Put(@, slot, Put(target, name, value)),
                     !.writes = @ \cup {[arg |-> index, key |-> key,
                                         slot |-> slot, name |-> name]}]
    ELSE [run EXCEPT !.thrown = TRUE, !.thrownBy = <<index, key>>]

\* extraPrefixes.find(([prefix]) => key.startsWith(prefix)); 0 for undefined
FindPrefix(key) ==
    IF \E i \in 1..Len(extraPrefixes) : startsWith(key, extraPrefixes[i][1])
    THEN CHOOSE i \in 1..Len(extraPrefixes) :
             /\ startsWith(key, extraPrefixes[i][1])
             /\ \A j \in 1..(i - 1) : ~startsWith(key, extraPrefixes[j][1])
    ELSE 0

\* FirstAllowed, were the flag of an allowExtra entry not looked at
FirstAllowed_AnyEntry(allowExtra) ==
    IF allowExtra # <<>> THEN 1 ELSE 0

\* the first entry of allowExtra whose flag is true; 0 when there is none
FirstAllowed(allowExtra) ==
    IF \E i \in 1..Len(allowExtra) : allowExtra[i][2]
    THEN CHOOSE i \in 1..Len(allowExtra) :
             allowExtra[i][2] /\ \A j \in 1..(i - 1) : ~allowExtra[j][2]
    ELSE 0

\* the body of the loop over Object.entries(arg ?? {}) for one entry
PlaceEntry(run, config, map, index, key, value) ==
    IF key \in DOMAIN map
    THEN LET field == map[key]
             name == IF field.map # <<>> THEN field.map ELSE key
         IN  SetIn(run, field.in, name, value, index, key)
    ELSE LET extra == FindPrefix(key) IN
         IF extra # 0
         THEN SetIn(run, extraPrefixes[extra][2],
                    slice(key, Len(extraPrefixes[extra][1])), value, index, key)
         ELSE LET allowed == FirstAllowed(config.allowExtra) IN
              IF allowed # 0
              THEN SetIn(run, config.allowExtra[allowed][1], key, value, index, key)
              ELSE run

RECURSIVE PlaceEntries(_, _, _, _, _)
\* for (const [key, value] of Object.entries(arg ?? {}))
PlaceEntries(run, config, map, index, entries) ==
    IF entries = <<>> \/ run.thrown
    THEN run
    ELSE PlaceEntries(PlaceEntry(run, config, map, index,
                                 Head(entries)[1], Head(entries)[2]),
                      config, map, index, Tail(entries))

\* PlaceArg, were a keyed Field to place arg[key] instead of arg
PlaceArg_Unwrap(run, config, map, index, arg) ==
    IF config.in # <<>>
    THEN IF config.key # <<>>
         THEN LET field == map[config.key]
                  name == IF field.map # <<>> THEN field.map ELSE config.key
              IN  SetIn(run, field.in, name,
                        IF arg.t = "object" THEN Get(arg, config.key) ELSE arg,
                        index, <<>>)
         ELSE [run EXCEPT !.params = Put(@, K_body, arg),
                          !.writes = @ \cup {[arg |-> index, key |-> <<>>,
                                              slot |-> K_body, name |-> <<>>]}]
    ELSE PlaceEntries(run, config, map, index,
                      IF arg.t \in {"undefined", "null"} THEN <<>>
                      ELSE ObjectEntries(arg))

\* the body of the loop over args.entries() for the config in force
PlaceArg(run, config, map, index, arg) ==
    IF config.in # <<>>
    THEN IF config.key # <<>>
         THEN LET field == map[config.key]
                  name == IF field.map # <<>> THEN field.map ELSE config.key
              IN  SetIn(run, field.in, name, arg, index, <<>>)
         ELSE [run EXCEPT !.params = Put(@, K_body, arg),
                          !.writes = @ \cup {[arg |-> index, key |-> <<>>,
                                              slot |-> K_body, name |-> <<>>]}]
    ELSE PlaceEntries(run, config, map, index,
                      IF arg.t \in {"undefined", "null"} THEN <<>>
                      ELSE ObjectEntries(arg))

RECURSIVE PlaceArgs(_, _, _, _, _, _)
\* for (const [index, arg] of args.entries()) : config is the place in fields
\* of the config in force (0 for undefined), and index counts from 1
PlaceArgs(run, configs, map, argList, index, config) ==
    IF index > Len(argList) \/ run.thrown
    THEN run
    ELSE LET config1 == IF index <= Len(configs) THEN index ELSE config
             run1 == IF config1 = 0
                     THEN run
                     ELSE PlaceArg(run, configs[config1], map, index, argList[index])
         IN  PlaceArgs(run1, configs, map, argList, index + 1, config1)

\* value && typeof value === 'object' && !Object.keys(value).length
IsEmptySlot(value) ==
    ~Falsy(value) /\ value.t \in {"object", "array"} /\ Len(ObjectKeys(value)) = 0

RECURSIVE stripEmptySlots(_, _)
\* stripEmptySlots(params), over the entries of params from the i-th on
stripEmptySlots(params, entries) ==
    IF entries = <<>>
    THEN params
    ELSE stripEmptySlots(IF IsEmptySlot(Head(entries)[2])
                         THEN Delete(params, Head(entries)[1])
                         ELSE params,
                         Tail(entries))

\* buildClientParams(args, fields)
buildClientParams(argList, configs) ==
    LET map == buildKeyMap(configs, NoMap)
        run == PlaceArgs(NewRun, configs, map, argList, 1, 0)
    IN  IF run.thrown
        THEN [status |-> "TypeError", params |-> Undefined,
              writes |-> run.writes, thrownBy |-> run.thrownBy]
        ELSE [status |-> "returned",
              params |-> stripEmptySlots(run.params, ObjectEntries(run.params)),
              writes |-> run.writes, thrownBy |-> <<>>]

\* the arguments and configs the mapper is tried on
ArgValues ==
    {JsStr(S_hello), JsNum(7), Null, Undefined, EmptyObj, JsArr(<<>>),
     JsObj(<< <<K_id, JsStr(S_1)>> >>),
     JsObj(<< <<K_id, JsStr(S_1)>>, <<K_x, JsNum(7)>> >>),
     JsObj(<< <<K_query_x, JsNum(7)>>, <<K_x, JsStr(S_hello)>> >>)}

FieldConfigs ==
    {Field(K_path, K_id, <<>>),
     Field(K_body, <<>>, <<>>),
     Field(K_query, K_a, K_x),
     Fields(<<Field(K_query, K_id, <<>>)>>, <<>>),
     Fields(<<Field(K_headers, K_id, K_x)>>, << <<K_path, FALSE>>, <<K_query, TRUE>> >>),
     Fields(<<>>, << <<K_query, FALSE>>, <<K_headers, FALSE>> >>),
     Fields(<<>>, << <<K_path, FALSE>>, <<K_body, TRUE>> >>)}

SeqsUpTo(S, n) == UNION {[1..k -> S] : k \in 0..n}

InitParams ==
    /\ _config = createConfig
    /\ interceptors = NoFns
    /\ call = NoCall
    /\ args \in SeqsUpTo(ArgValues, MaxArgs)
    /\ fields \in SeqsUpTo(FieldConfigs, MaxFields)
    /\ result = NoResult
    /\ NoNotifications

BuildClientParams ==
    /\ result = NoResult
    /\ result' = buildClientParams(args, fields)
    /\ UNCHANGED <<clientVars, args, fields, notifyVars>>

NextParams == BuildClientParams

SpecParams == InitParams /\ [][NextParams]_vars

----------------------------------------------------------------------------
(* The desktop notification service: desktop.ts *)

\* the ids callers pass as options.id, and the one nanoid() makes
OptionIds == {"a", "b"}
NanoIds == {"n"}

\* hashNanoidToNumber(idStringified): a hash, so two strings may collide
hashNanoidToNumber(idStringified) ==
    CASE idStringified = "a" -> 1
      [] idStringified = "b" -> 2
      [] idStringified = "n" -> 1

\* what the plugin's functions answer; "throw" is a rejected promise
BooleanAnswers == {"true", "false", "throw"}
PermissionAnswers == {"granted", "denied", "default", "throw"}

\* one entry of a call's trace: a plugin function is called, returns or throws
PluginEvent(e, of, v) == [e |-> e, of |-> of, v |-> v]

\* the call invokes a plugin function and awaits it
InvokePlugin(c, of) ==
    [c EXCEPT !.pc = of, !.trace = Append(@, PluginEvent("call", of, ""))]

\* the awaited plugin function settles
PluginSettled(c, e, v) ==
    [c EXCEPT !.trace = Append(@, PluginEvent(e, c.pc, v))]

\* the promise of notify() or clear() resolves with Ok(value) or Err(value)
Resolve(c, kind, value) ==
    [c EXCEPT !.pc = "done", !.outcome = [kind |-> kind, value |-> value]]

\* removeNotificationById returns: clear() hands the result on, notify()
\* drops it and goes on to isPermissionGranted()
AfterRemoval(c, kind, value) ==
    LET c1 == [c EXCEPT !.trace =
                   Append(@, PluginEvent("return", "removeNotificationById", kind))]
    IN  IF c.op = "clear"
        THEN Resolve(c1, kind, value)
        ELSE InvokePlugin(c1, "isPermissionGranted")

\* permissionGranted = permission === 'granted', were 'default' to count too
Granted_NotDenied(permission) == permission # "denied"

\* permissionGranted = permission === 'granted'
Granted(permission) == permission = "granted"

\* if (permissionGranted) sendNotification({...tauriOptions, id}), and the
\* rest of notify(): a throw inside the try block becomes an Err
AfterPermission(c, permissionGranted, sendThrows) ==
    IF permissionGranted
    THEN LET c1 == [c EXCEPT !.trace =
                        Append(@, PluginEvent("call", "sendNotification", ""))]
         IN  IF sendThrows
             THEN Resolve([c1 EXCEPT !.trace =
                              Append(@, PluginEvent("throw", "sendNotification", ""))],
                          "Err", "Could not send notification")
             ELSE Resolve(c1, "Ok", c.idStringified)
    ELSE Resolve(c, "Ok", c.idStringified)

\* what the plugin shows after the call went through AfterPermission
Shown(c, permissionGranted, sendThrows) ==
    IF permissionGranted /\ ~sendThrows
    THEN activeOnDesktop \cup {c.id}
    ELSE activeOnDesktop

\* notify(options), to its first await: active() inside removeNotificationById
Notify(c, optionsId) ==
    /\ notifyCalls[c].pc = "idle"
    /\ \E nanoid \in NanoIds :
          LET idStringified == IF optionsId = "undefined" THEN nanoid ELSE optionsId
              id == hashNanoidToNumber(idStringified)
          IN  notifyCalls' = [notifyCalls EXCEPT ![c] =
                  InvokePlugin([@ EXCEPT !.op = "notify",
                                         !.idStringified = idStringified,
                                         !.id = id], "active")]
    /\ UNCHANGED <<clientVars, paramsVars, activeOnDesktop>>

\* clear(idStringified), to its first await
ClearNotification(c, idStringified) ==
    /\ notifyCalls[c].pc = "idle"
    /\ notifyCalls' = [notifyCalls EXCEPT ![c] =
           InvokePlugin([@ EXCEPT !.op = "clear",
                                  !.idStringified = idStringified,
                                  !.id = hashNanoidToNumber(idStringified)],
                        "active")]
    /\ UNCHANGED <<clientVars, paramsVars, activeOnDesktop>>

\* await active() settles: the rest of removeNotificationById up to
\* removeActive, or up to its return
ActiveSettles(c, ok) ==
    /\ notifyCalls[c].pc = "active"
    /\ LET call0 == notifyCalls[c]
           matching == IF call0.id \in activeOnDesktop THEN call0.id ELSE 0
       IN  notifyCalls' = [notifyCalls EXCEPT ![c] =
               IF ~ok
               THEN AfterRemoval(PluginSettled(call0, "throw", ""), "Err",
                                 "Unable to retrieve active desktop notifications.")
               ELSE IF matching # 0
               THEN InvokePlugin([PluginSettled(call0, "return", "found")
                                     EXCEPT !.matching = matching],
                                 "removeActive")
               ELSE AfterRemoval(PluginSettled(call0, "return", "none"), "Ok", "")]
    /\ UNCHANGED <<clientVars, paramsVars, activeOnDesktop>>

\* await removeActive([matchingActiveNotification]) settles
RemoveActiveSettles(c, ok) ==
    /\ notifyCalls[c].pc = "removeActive"
    /\ activeOnDesktop' = IF ok THEN activeOnDesktop \ {notifyCalls[c].matching}
                          ELSE activeOnDesktop
    /\ notifyCalls' = [notifyCalls EXCEPT ![c] =
           IF ok
           THEN AfterRemoval(PluginSettled(@, "return", ""), "Ok", "")
           ELSE AfterRemoval(PluginSettled(@, "throw", ""), "Err",
                             "Unable to remove notification")]
    /\ UNCHANGED <<clientVars, paramsVars>>

\* await isPermissionGranted() settles
IsPermissionGrantedSettles(c, answer, sendThrows) ==
    /\ notifyCalls[c].pc = "isPermissionGranted"
    /\ LET call0 == notifyCalls[c] IN
       CASE answer = "throw" ->
               /\ notifyCalls' = [notifyCalls EXCEPT ![c] =
                      Resolve(PluginSettled(call0, "throw", ""), "Err",
                              "Could not send notification")]
               /\ UNCHANGED activeOnDesktop
         [] answer = "false" ->
               /\ notifyCalls' = [notifyCalls EXCEPT ![c] =
                      InvokePlugin(PluginSettled(call0, "return", answer),
                                   "requestPermission")]
               /\ UNCHANGED activeOnDesktop
         [] answer = "true" ->
               /\ notifyCalls' = [notifyCalls EXCEPT ![c] =
                      AfterPermission(PluginSettled(call0, "return", answer),
                                      TRUE, sendThrows)]
               /\ activeOnDesktop' = Shown(call0, TRUE, sendThrows)
    /\ UNCHANGED <<clientVars, paramsVars>>

\* await requestPermission() settles
RequestPermissionSettles(c, answer, sendThrows) ==
    /\ notifyCalls[c].pc = "requestPermission"
    /\ LET call0 == notifyCalls[c] IN
       IF answer = "throw"
       THEN /\ notifyCalls' = [notifyCalls EXCEPT ![c] =
                   Resolve(PluginSettled(call0, "throw", ""), "Err",
                           "Could not send notification")]
            /\ UNCHANGED activeOnDesktop
       ELSE /\ notifyCalls' = [notifyCalls EXCEPT ![c] =
                   AfterPermission(PluginSettled(call0, "return", answer),
                                   Granted(answer), sendThrows)]
            /\ activeOnDesktop' = Shown(call0, Granted(answer), sendThrows)
    /\ UNCHANGED <<clientVars, paramsVars>>

InitNotify ==
    /\ _config = createConfig
    /\ interceptors = NoFns
    /\ call = NoCall
    /\ args = <<>>
    /\ fields = <<>>
    /\ result = NoResult
    /\ NoNotifications

NextNotify ==
    \/ \E c \in 1..MaxCalls : \E optionsId \in OptionIds \cup {"undefined"} :
          Notify(c, optionsId)
    \/ \E c \in 1..MaxCalls : \E idStringified \in OptionIds \cup NanoIds :
          ClearNotification(c, idStringified)
    \/ \E c \in 1..MaxCalls : \E ok \in BOOLEAN : ActiveSettles(c, ok)
    \/ \E c \in 1..MaxCalls : \E ok \in BOOLEAN : RemoveActiveSettles(c, ok)
    \/ \E c \in 1..MaxCalls : \E answer \in BooleanAnswers :
          \E sendThrows \in BOOLEAN :
              IsPermissionGrantedSettles(c, answer, sendThrows)
    \/ \E c \in 1..MaxCalls : \E answer \in PermissionAnswers :
          \E sendThrows \in BOOLEAN :
              RequestPermissionSettles(c, answer, sendThrows)

SpecNotify == InitNotify /\ [][NextNotify]_vars

----------------------------------------------------------------------------
(* Properties of request() *)

Done == call.pc = "done"
Returned == Done /\ call.outcome.kind = "returned"
Threw == Done /\ call.outcome.kind = "threw"

\* the call has a response, and it is not ok
NotOk(c) == c.response.t = "Response" /\ ~ResponseOk(c.response.v)
IsOk(c) == c.response.t = "Response" /\ ResponseOk(c.response.v)

\* the calls of the call's trace made in the loop over a chain, or of one kind
Events(c, op) == SelectSeq(c.trace, LAMBDA e : e.op = op)

Ran(c, ops) == \E i \in 1..Len(c.trace) : c.trace[i].op \in ops

\* C1: a call that returns hands back, in the envelope style, an object with
\* exactly one of the keys data and error (data iff the response left by the
\* response interceptors is ok) together with request and response; in the
\* bare style it hands back undefined when the response is not ok.
C1_ResultShape ==
    Returned =>
        LET value == call.outcome.value IN
        IF call.opts.responseStyle # "data"
        THEN /\ value.t = "object"
             /\ HasKey(value, K_data) # HasKey(value, K_error)
             /\ HasKey(value, K_data) <=> IsOk(call)
             /\ HasKey(value, K_request) /\ Get(value, K_request) = call.request
             /\ HasKey(value, K_response) /\ Get(value, K_response) = call.response
        ELSE NotOk(call) => value = Undefined

C1_Witness ==
    /\ Returned /\ NotOk(call)
    /\ call.opts.responseStyle = "data"
    /\ Ran(call, {"response"})

\* the call failed: something it awaited rejected, or the response is not ok
Failed == Done /\ (call.rejected # Undefined \/ NotOk(call))

\* the returned value is an object whose error field holds a truthy value
ErrorFieldPopulated ==
    /\ Returned
    /\ call.outcome.value.t = "object"
    /\ HasKey(call.outcome.value, K_error)
    /\ ~Falsy(Get(call.outcome.value, K_error))

\* C2 as claimed: every failed call either throws or returns a populated
\* error field, never both and never neither, whatever throwOnError and
\* responseStyle are.
C2_SurfacedOnce == Failed => (Threw # ErrorFieldPopulated)

\* C2 as amended: the same, except in the bare style with throwOnError off,
\* where a response that is not ok makes the call return undefined: nothing
\* is thrown and there is no error field.
C2_SurfacedOnceUnlessBare ==
    Failed =>
        IF call.rejected = Undefined
           /\ call.opts.responseStyle = "data" /\ ~call.opts.throwOnError
        THEN Returned /\ call.outcome.value = Undefined
        ELSE Threw # ErrorFieldPopulated

C2_Witness ==
    /\ Failed /\ ErrorFieldPopulated
    /\ Get(call.outcome.value, K_error) = EmptyObj
    /\ Ran(call, {"error"})

InFlight == call.pc \notin {"idle", "done"}

\* the value is an object that carries request and response
IsEnvelope(value) ==
    value.t = "object" /\ HasKey(value, K_request) /\ HasKey(value, K_response)

\* the slots of an array that hold a function
Registered(fns) == {i \in 1..Len(fns) : fns[i] # 0}

\* the slots whose function the call has called in the loop over a chain
Applied(c, chain) ==
    {c.trace[i].fn : i \in {j \in 1..Len(c.trace) : c.trace[j].op = chain}}

\* C3 as claimed: a call applies the configuration and exactly the
\* interceptor functions that were registered when it started, whatever is
\* changed while it is in flight.
C3_StartSnapshot ==
    InFlight =>
        /\ call.opts.throwOnError = call.startConfig.throwOnError
        /\ call.opts.responseStyle = call.startConfig.responseStyle
        /\ call.pc = "fn" => call.fn \in Registered(call.startFns[call.chain])
        /\ call.pc = "fetch" =>
               Applied(call, "request") = Registered(call.startFns.request)
        /\ call.pc \in {"body", "text"} =>
               Applied(call, "response") = Registered(call.startFns.response)

\* the call went through the code after the error loop
Finished == Done /\ NotOk(call) /\ call.rejected = Undefined

\* C3 as amended: a setConfig made while a call is in flight has no effect
\* on that call: the call throws, and shapes what it returns, by the
\* configuration the client had when the call started.
C3_ConfigSnapshot ==
    /\ InFlight =>
        /\ call.opts.throwOnError = call.startConfig.throwOnError
        /\ call.opts.responseStyle = call.startConfig.responseStyle
    /\ Finished =>
        /\ Threw <=> call.startConfig.throwOnError
        /\ Returned =>
             (call.outcome.value = Undefined
                <=> call.startConfig.responseStyle = "data")
    /\ (Returned /\ IsOk(call)) =>
        (IsEnvelope(call.outcome.value)
            <=> call.startConfig.responseStyle # "data")

C3_Witness ==
    /\ Finished
    /\ _config.throwOnError # call.startConfig.throwOnError

\* C4: the error interceptors run as a pipe: the first is called with the
\* initial error, each later one with what the one before it returned, and
\* the final error is what the last one returned, or {} if that is falsy.
C4_ErrorPipe ==
    /\ (call.pc = "fn" /\ call.chain = "error") => LastArg(call) = call.finalError
    /\ Finished =>
         LET e == Events(call, "error") IN
         /\ Len(e) > 0 => e[1].arg = call.error
         /\ call.finalError # EmptyObj =>
                call.finalError = IF Len(e) = 0
                                  THEN call.error
                                  ELSE ResultOf(e[Len(e)].fn, e[Len(e)].arg)

\* the request interceptors called so far, and the Request each returned
RequestPipe(c) ==
    LET e == Events(c, "request") IN
    /\ \A k \in 1..Len(e) :
         /\ e[k].arg = IF k = 1
                       THEN JsRequest(<<>>)
                       ELSE JsRequest(Append(e[k - 1].arg.v, e[k - 1].fn))
         /\ k > 1 => e[k - 1].fn < e[k].fn
    /\ \A i \in 1..Len(c.trace) :
         c.trace[i].op = "fetch" =>
         c.trace[i].arg =
                 IF Len(e) = 0
                 THEN JsRequest(<<>>)
                 ELSE JsRequest(Append(e[Len(e)].arg.v, e[Len(e)].fn))

\* C5: the request interceptors run in registration order as a pipe: the
\* first registered gets the constructed Request, each later one the Request
\* the one before it returned, the transport the Request the last returned
\* (the constructed Request when the chain is empty); a call during which the
\* registry is not changed calls every registered function.
C5_RequestPipe ==
    /\ call.pc # "idle" => RequestPipe(call)
    /\ (call.pc = "fetch" /\ call.mutations = 0) =>
          /\ Applied(call, "request") = Registered(interceptors.request)
          /\ Len(Events(call, "request")) = Cardinality(Registered(interceptors.request))

C5_Witness ==
    /\ call.pc = "fetch"
    /\ call.mutations = 0
    /\ Len(Events(call, "request")) = 2
    /\ call.request = JsRequest(<<1, 2>>)

\* C6: when the text of a response that is not ok is valid JSON, the initial
\* error is the parsed value, and so is the error returned or thrown when no
\* error interceptor is registered; the text itself is used only when it
\* does not parse.
C6_ParsedError ==
    call.textError # Undefined =>
        LET parsed == JSONParse(call.textError.v)
            expected == IF parsed.ok THEN parsed.value ELSE call.textError
        IN  /\ call.error = expected
            /\ (Finished /\ ~Ran(call, {"error"})) =>
                 /\ Threw => call.outcome.value = expected
                 /\ (Returned /\ call.opts.responseStyle # "data") =>
                       Get(call.outcome.value, K_error) = expected

\* the response is ok and has no content
NoContent(c) ==
    /\ IsOk(c)
    /\ c.response.v.status = 204 \/ c.response.v.contentLength = "0"

Decoders == {"arrayBuffer", "blob", "formData", "json", "text"}

\* C7: a response that reaches the success branch with status 204 or with
\* Content-Length '0' yields {} as data, bare or in the envelope, whatever
\* parseAs is; no decoder, responseValidator or responseTransformer is called.
C7_NoContent ==
    (NoContent(call) /\ ~(call.pc = "fn" /\ call.chain = "response")) =>
        /\ Done
        /\ ~Ran(call, Decoders \cup {"responseValidator", "responseTransformer"})
        /\ Threw => call.rejected = JsError("response", call.outcome.value.v[2])
        /\ Returned =>
             call.outcome.value = IF call.opts.responseStyle = "data"
                                  THEN EmptyObj
                                  ELSE Envelope(call, K_data, EmptyObj)

C7_Witness ==
    /\ Returned /\ NoContent(call)
    /\ call.response.v.status = 200
    /\ call.opts.parseAs = "stream"
    /\ call.opts.responseValidator /\ call.opts.responseTransformer

\* C8: the transport is called at most once in a call, and the first
\* rejection ends the call: the call that rejected is the last one the call
\* made, and request() rejects with the value it rejected with.  So no
\* transport runs after a rejected request validator or request interceptor,
\* and nothing runs after a rejected transport.
C8_AbortOnFirstFailure ==
    /\ call.pc # "idle" => Len(Events(call, "fetch")) <= 1
    /\ call.rejected # Undefined =>
         /\ Threw /\ call.outcome.value = call.rejected
         /\ call.trace[Len(call.trace)].op = call.rejected.v[1]
         /\ call.trace[Len(call.trace)].fn = call.rejected.v[2]
         /\ call.rejected.v[1] \in {"setAuthParams", "requestValidator", "request"}
              => ~Ran(call, {"fetch"})
         /\ call.rejected.v[1] = "fetch" =>
              ~Ran(call, {"response", "error", "text", "responseValidator",
                          "responseTransformer"} \cup Decoders)

C8_Witness ==
    /\ Threw
    /\ call.rejected = JsError("fetch", 0)
    /\ Ran(call, {"requestValidator"}) /\ Ran(call, {"request"})

----------------------------------------------------------------------------
(* Properties of buildClientParams *)

Built == result.status # "none"

\* the example: buildClientParams([{id:'1'}, 'hello'],
\*                                [{in:'path',key:'id'}, {in:'body'}])
IsExample ==
    /\ args = <<JsObj(<< <<K_id, JsStr(S_1)>> >>), JsStr(S_hello)>>
    /\ fields = <<Field(K_path, K_id, <<>>), Field(K_body, <<>>, <<>>)>>

\* C9 as claimed: the example returns path {id:'1'} and body 'hello', with
\* the empty headers and query slots omitted.
C9_Example ==
    (IsExample /\ Built) =>
        /\ result.status = "returned"
        /\ Get(result.params, K_path) = JsObj(<< <<K_id, JsStr(S_1)>> >>)
        /\ Get(result.params, K_body) = JsStr(S_hello)
        /\ ~HasKey(result.params, K_headers)
        /\ ~HasKey(result.params, K_query)

\* C9 as amended: the example returns path {id: {id:'1'}}, the whole first
\* argument under the key id, and body 'hello', with the empty headers and
\* query slots omitted.
C9_ExampleWholeArgument ==
    (IsExample /\ Built) =>
        /\ result.status = "returned"
        /\ Get(result.params, K_path) =
               JsObj(<< <<K_id, JsObj(<< <<K_id, JsStr(S_1)>> >>)>> >>)
        /\ Get(result.params, K_body) = JsStr(S_hello)
        /\ ~HasKey(result.params, K_headers)
        /\ ~HasKey(result.params, K_query)

C9_Witness == IsExample /\ result.status = "returned"

\* the config in force for the index-th argument (from 1); 0 when none is
ConfigAt(index) == IF index <= Len(fields) THEN index ELSE Len(fields)

DeclaredKeys(configs) ==
    UNION {IF configs[i].in # <<>>
           THEN IF configs[i].key # <<>> THEN {configs[i].key} ELSE {}
           ELSE {configs[i].args[j].key : j \in 1..Len(configs[i].args)} \ {<<>>}
           : i \in 1..Len(configs)}

ReservedPrefix(key) ==
    \E i \in 1..Len(extraPrefixes) : startsWith(key, extraPrefixes[i][1])

\* the <<index, key>> of the keys of object arguments handled under a Fields
\* group that are not declared, not prefixed and not let in by allowExtra
DroppedKeys ==
    {ik \in UNION {{<<i, ObjectKeys(args[i])[j]>> : j \in 1..Len(args[i].v)}
                   : i \in {n \in 1..Len(args) : args[n].t = "object"}} :
        /\ ConfigAt(ik[1]) # 0
        /\ fields[ConfigAt(ik[1])].in = <<>>
        /\ ik[2] \notin DeclaredKeys(fields)
        /\ ~ReservedPrefix(ik[2])
        /\ \A e \in 1..Len(fields[ConfigAt(ik[1])].allowExtra) :
              ~fields[ConfigAt(ik[1])].allowExtra[e][2]}

\* the key is a key of one of the slots of the result
InSomeSlot(key) ==
    \E s \in 1..Len(Slots) :
        /\ HasKey(result.params, Slots[s])
        /\ Get(result.params, Slots[s]).t \in {"object", "array"}
        /\ HasKey(Get(result.params, Slots[s]), key)

\* C10 as claimed: a key that is not declared, not prefixed and not let in by
\* allowExtra is a key of no slot of the result, and the call does not fail
\* because of it.
C10_DroppedKeysAbsent ==
    Built =>
        \A ik \in DroppedKeys :
            /\ result.status = "returned" => ~InSomeSlot(ik[2])
            /\ result.thrownBy # ik

\* C10 as amended: such a key is written into no slot, and the call does not
\* fail because of it; a key of its name is in a slot of the result only
\* where another key or another argument was written under that name.
C10_DroppedKeysNotWritten ==
    Built =>
        \A ik \in DroppedKeys :
            /\ \A w \in result.writes : ~(w.arg = ik[1] /\ w.key = ik[2])
            /\ result.thrownBy # ik
            /\ (result.status = "returned" /\ InSomeSlot(ik[2])) =>
                  \E w \in result.writes :
                      /\ <<w.arg, w.key>> # ik
                      /\ \/ w.name = ik[2]
                         \/ /\ w.name = <<>>
                            /\ args[w.arg].t \in {"object", "array"}
                            /\ HasKey(args[w.arg], ik[2])

C10_Witness ==
    /\ result.status = "returned"
    /\ \E ik \in DroppedKeys :
          /\ fields[ConfigAt(ik[1])].allowExtra # <<>>
          /\ ~InSomeSlot(ik[2])

\* params as the loop over the arguments leaves it, before stripEmptySlots
Placed == PlaceArgs(NewRun, fields, buildKeyMap(fields, NoMap), args, 1, 0).params

\* C11: in every result none of the headers, path and query slots is present
\* with an empty mapping as its value, and the body slot is removed only when
\* the body is itself an empty object: any other body (a string, a number, a
\* non-empty object, an empty array, null) is kept in the result.
C11_StripOnlyEmptyMappings ==
    result.status = "returned" =>
        /\ \A slot \in {K_headers, K_path, K_query} :
              HasKey(result.params, slot) =>
                  Get(result.params, slot) # EmptyObj
        /\ Get(Placed, K_body) # EmptyObj =>
              /\ HasKey(result.params, K_body)
              /\ Get(result.params, K_body) = Get(Placed, K_body)

----------------------------------------------------------------------------
(* Properties of notify() *)

\* the i-th entry of trace t is the event e of the plugin function of
IsEvent(t, i, e, of) == t[i].e = e /\ t[i].of = of

\* the places of trace t where sendNotification is called
Sends(t) == {i \in 1..Len(t) : IsEvent(t, i, "call", "sendNotification")}

\* before place i of trace t, isPermissionGranted returned true, or it
\* returned false and requestPermission then returned 'granted'
PermissionGrantedBefore(t, i) ==
    \/ \E k \in 1..(i - 1) :
          IsEvent(t, k, "return", "isPermissionGranted") /\ t[k].v = "true"
    \/ \E k \in 1..(i - 1) : \E m \in (k + 1)..(i - 1) :
          /\ IsEvent(t, k, "return", "isPermissionGranted") /\ t[k].v = "false"
          /\ IsEvent(t, m, "return", "requestPermission") /\ t[m].v = "granted"

\* before place i of trace t, removeNotificationById returned, and every
\* call of active and removeActive was made and had settled
RemovalOverBefore(t, i) ==
    /\ \E j \in 1..(i - 1) : IsEvent(t, j, "return", "removeNotificationById")
    /\ \A k \in 1..Len(t) :
          (t[k].e = "call" /\ t[k].of \in {"active", "removeActive"}) =>
              /\ k + 1 < i
              /\ t[k + 1].of = t[k].of
              /\ t[k + 1].e \in {"return", "throw"}

\* permission was refused: isPermissionGranted returned false and
\* requestPermission returned something other than 'granted'
PermissionDenied(t) ==
    /\ \E k \in 1..Len(t) :
          IsEvent(t, k, "return", "isPermissionGranted") /\ t[k].v = "false"
    /\ \E k \in 1..Len(t) :
          IsEvent(t, k, "return", "requestPermission") /\ t[k].v # "granted"

\* C12: in every notify() call sendNotification is invoked at most once, only
\* after the attempt to remove an active notification with the same numeric
\* id has completed (whether it succeeded or failed), and only when
\* permission is granted; requestPermission is invoked only when
\* isPermissionGranted returned false; when permission is denied nothing is
\* sent and notify returns Ok with the string id.
C12_SendDiscipline ==
    \A c \in 1..MaxCalls :
        LET t == notifyCalls[c].trace IN
        notifyCalls[c].op = "notify" =>
            /\ Cardinality(Sends(t)) <= 1
            /\ \A i \in Sends(t) :
                  RemovalOverBefore(t, i) /\ PermissionGrantedBefore(t, i)
            /\ notifyCalls[c].matching \in
                  {0, hashNanoidToNumber(notifyCalls[c].idStringified)}
            /\ \A i \in 1..Len(t) :
                  IsEvent(t, i, "call", "requestPermission") =>
                      /\ i > 1
                      /\ IsEvent(t, i - 1, "return", "isPermissionGranted")
                      /\ t[i - 1].v = "false"
            /\ (PermissionDenied(t) /\ notifyCalls[c].pc = "done") =>
                  /\ Sends(t) = {}
                  /\ notifyCalls[c].outcome =
                         [kind |-> "Ok", value |-> notifyCalls[c].idStringified]

\* a notify() call found a notification of its numeric id, failed to remove
\* it, asked for permission, was given it and sent
C12_Witness ==
    \E c \in 1..MaxCalls :
        LET t == notifyCalls[c].trace IN
        /\ notifyCalls[c].op = "notify"
        /\ notifyCalls[c].pc = "done"
        /\ notifyCalls[c].outcome.kind = "Ok"
        /\ \E k \in 1..Len(t) : IsEvent(t, k, "throw", "removeActive")
        /\ \E k \in 1..Len(t) :
              IsEvent(t, k, "return", "requestPermission") /\ t[k].v = "granted"
        /\ Sends(t) # {}

====
